---- MODULE Spec2Model ----
(***************************************************************************)
(* i3monkit: the widget scheduler (WidgetCollection::update_loop) and the  *)
(* i3bar protocol encoder (I3Protocol), modelled from src/src/widget.rs    *)
(* and src/src/protocol.rs.                                                *)
(*                                                                         *)
(* Indices are 0-based as in the source: widget indices, snapshot indices  *)
(* and the values stored in idx_map.  At(s, i) reads element i of a Vec.   *)
(***************************************************************************)
EXTENDS Integers, Sequences, FiniteSets, Bags, TLC

VARIABLES
  widgets,        \* Vec<Box<dyn Widget>>: one observation record per widget
  idx_map,        \* Vec<usize>
  event_queue,    \* BinaryHeap<RefreshEvent>, a bag of <<due, widget index>>
  result_buffer,  \* Vec<Block>, the snapshot
  pc,             \* position of the main thread
  size,           \* local of update_loop
  idx,            \* loop variable of the priming pass
  next_event,     \* local of the event loop
  update,         \* what the last update() call returned
  now,            \* SystemTime::now()
  polls,          \* number of update() calls made by the event loop
  overflow_checks,\* build profile: 0 - 1 panics ("on") or wraps ("off");
                  \* "unknown" until the first 0 - 1 shows which
  proto_inst,     \* life of the I3Protocol value: "none", "live", "dropped"
  wbuf,           \* records held by the BufWriter, not yet in the sink
  out,            \* records the sink has received
  sink,           \* "ok" or "fail": whether the sink accepts bytes
  refreshed,      \* the snapshots handed to I3Protocol::refresh, in call order
  header,         \* Option<Header>: the Header a caller is building
  block,          \* Option<Block>: the Block a caller is building
  last_call,      \* the last method called on the Header and on the Block
  wire,           \* Option<String>: what serde_json::to_string last returned
  decorated,      \* Option: a WidgetDecorator, with what its last update() did
  client,         \* StockClient: symbols, cache, refresh_thread
  thread,         \* the refresh thread: the symbols it captured, its state,
                  \* and how many threads (each with its channel) were spawned
  channel,        \* mpsc channel from the refresh thread to the client
  stock           \* StockWidget::update: position, symbol, last result

\* the scheduler and the encoder it writes to
sched_vars == <<widgets, idx_map, event_queue, result_buffer, pc, size, idx,
                next_event, update, now, polls, overflow_checks, proto_inst,
                wbuf, out, sink, refreshed>>

\* the values callers build and the decorator
render_vars == <<header, block, last_call, wire, decorated>>

\* the stock client, its refresh thread and its widgets
stock_vars == <<client, thread, channel, stock>>

vars == <<sched_vars, render_vars, stock_vars>>

----------------------------------------------------------------------------
(* Bounds of the model *)

MaxWidgets == 3    \* widgets pushed before update_loop
MaxPolls == 2      \* update() calls made by the event loop
MaxInterval == 1   \* a widget's refresh_interval is in 0..MaxInterval
MaxRefreshes == 2  \* calls of refresh made directly on an encoder
MaxStatusLen == 2  \* Blocks in a status passed directly to refresh
MaxClock == 1      \* the clock advances inside update() calls up to here
MaxVersion == 1    \* a Header's version is in 0..MaxVersion
MaxTextLen == 2    \* characters in a text of a Block
MaxSources == 1    \* widgets of src/src/widgets pushed before update_loop
MaxSymbols == 2    \* StockClient::create_widget calls
MaxChannel == 1    \* messages in the channel, not yet received
MaxLayers == 2     \* decorate_with calls on one widget
MaxCalls == 2      \* calls of update_loop on one collection
MaxDecorated == 2  \* update() calls made on a WidgetDecorator
UsizeBits == 16    \* width of usize in the model (the value only has to
                   \* exceed every Vec length)

----------------------------------------------------------------------------
(* Option<T> as a sequence of length 0 or 1 *)

None == <<>>

Some(x) == <<x>>

is_some(o) == Len(o) = 1

unwrap(o) == o[1]

At(s, i) == s[i + 1]

InBounds(s, i) == i >= 0 /\ i < Len(s)

\* usize subtraction in a build without overflow checks
WrappingSub(a, b) == (a - b + 2 ^ UsizeBits) % (2 ^ UsizeBits)

----------------------------------------------------------------------------
(* protocol.rs: Header, ColorRGB, MarkupLang and Block, and their wire forms.
   A text is a sequence of characters; the wire form of a struct is the
   sequence of its <<key, value>> members in the order serde emits them. *)

Header_new(version) ==
  [version |-> version, stop_signal |-> None, cont_signal |-> None,
   click_events |-> None]

Header_click_events(h, enable) == [h EXCEPT !.click_events = Some(enable)]

\* a member guarded by skip_serializing_if = "Option::is_none"
Member(key, o) == IF is_some(o) THEN << <<key, unwrap(o)>> >> ELSE <<>>

\* mutant of Header_serialize: an unset click_events is written as null
Header_serializeNull(h) ==
  << <<"version", h.version>> >>
    \o Member("stop_signal", h.stop_signal)
    \o Member("cont_signal", h.cont_signal)
    \o (IF is_some(h.click_events) THEN Member("click_events", h.click_events)
        ELSE << <<"click_events", "null">> >>)

\* #[derive(Serialize)] for Header
Header_serialize(h) ==
  << <<"version", h.version>> >>
    \o Member("stop_signal", h.stop_signal)
    \o Member("cont_signal", h.cont_signal)
    \o Member("click_events", h.click_events)

ColorRGB(r, g, b) == <<r, g, b>>

ColorRGB_red == ColorRGB(255, 0, 0)

ColorRGB_green == ColorRGB(0, 255, 0)

ColorRGB_blue == ColorRGB(0, 0, 255)

ColorRGB_yellow == ColorRGB(255, 255, 0)

HexDigit(d) ==
  <<"0", "1", "2", "3", "4", "5", "6", "7", "8", "9",
    "a", "b", "c", "d", "e", "f">>[d + 1]

\* {:x}: the hexadecimal digits of n, without leading zeros
RECURSIVE LowerHex(_)
LowerHex(n) ==
  IF n < 16 THEN <<HexDigit(n)>>
  ELSE Append(LowerHex(n \div 16), HexDigit(n % 16))

\* the flag 0 with a width: zeros in front up to the width
RECURSIVE ZeroPad(_, _)
ZeroPad(text, width) ==
  IF Len(text) >= width THEN text ELSE ZeroPad(<<"0">> \o text, width)

\* {:02x}
LowerHex02(n) == ZeroPad(LowerHex(n), 2)

\* {:.2x}: a precision, which formatting ignores for an integer
LowerHexPrecision2(n) == LowerHex(n)

\* Serialize for ColorRGB: format!("#{:.2x}{:02x}{:02x}", r, g, b)
ColorRGB_serialize(c) ==
  <<"#">> \o LowerHexPrecision2(c[1]) \o LowerHex02(c[2]) \o LowerHex02(c[3])

\* Serialize for MarkupLang
MarkupLang_serialize(m) ==
  IF m = "Text" THEN <<"n", "o", "n", "e">> ELSE <<"p", "a", "n", "g", "o">>

Block_new ==
  [name |-> <<>>, instance |-> <<>>, full_text |-> <<>>, short_text |-> <<>>,
   color |-> None, markup |-> "Text"]

Block_instance(b, text) == [b EXCEPT !.instance = text]

Block_name(b, text) == [b EXCEPT !.name = text]

Block_full_text(b, text) == [b EXCEPT !.full_text = text]

Block_append_full_text(b, text) == [b EXCEPT !.full_text = @ \o text]

Block_short_text(b, text) == [b EXCEPT !.short_text = text]

Block_color(b, c) == [b EXCEPT !.color = Some(c)]

Block_clear_color(b) == [b EXCEPT !.color = None]

Block_use_pango(b) == [b EXCEPT !.markup = "Pango"]

Block_use_plain_text(b) == [b EXCEPT !.markup = "Text"]

\* mutant of Block_serialize: an empty short_text is written too
Block_serializeShort(b) ==
  << <<"name", b.name>>, <<"instance", b.instance>>,
     <<"full_text", b.full_text>>, <<"short_text", b.short_text>> >>
    \o (IF is_some(b.color)
          THEN << <<"color", ColorRGB_serialize(unwrap(b.color))>> >>
          ELSE <<>>)
    \o << <<"markup", MarkupLang_serialize(b.markup)>> >>

\* #[derive(Serialize)] for Block
Block_serialize(b) ==
  << <<"name", b.name>>, <<"instance", b.instance>>,
     <<"full_text", b.full_text>> >>
    \o (IF b.short_text = <<>> THEN <<>>
        ELSE << <<"short_text", b.short_text>> >>)
    \o (IF is_some(b.color)
          THEN << <<"color", ColorRGB_serialize(unwrap(b.color))>> >>
          ELSE <<>>)
    \o << <<"markup", MarkupLang_serialize(b.markup)>> >>

----------------------------------------------------------------------------
(* protocol.rs: the encoder.  A record is one newline-terminated line. *)

Raw(text) == <<"raw", text>>

\* serde_json::to_string for the types it is called with: a Header and a
\* Block become JSON objects, a Vec<Block> a JSON array whose elements the
\* model keeps as the Blocks they encode; none of them can fail
JsonKind(type) == IF type = "Vec<Block>" THEN "array" ELSE "object"

JsonValue(type, value) ==
  IF type = "Header" THEN Header_serialize(value)
  ELSE IF type = "Block" THEN Block_serialize(value)
  ELSE value

to_string(type, value) == Some(<<JsonKind(type), JsonValue(type, value)>>)

\* I3Protocol::write where write_all succeeds.  w = [buf, out] is the
\* BufWriter's buffer and the sink's content; a failing sink keeps the record
\* in the buffer because the result of flush() is dropped by .ok()
write(w, data, s) ==
  IF s = "ok"
    THEN [buf |-> <<>>, out |-> w.out \o w.buf \o <<data>>]
    ELSE [buf |-> Append(w.buf, data), out |-> w.out]

\* lines 181-183, given what serde_json::to_string returned: None for Err
write_serialized(w, serialized, s) ==
  IF is_some(serialized) THEN write(w, unwrap(serialized), s) ELSE w

write_json(w, type, value, s) == write_serialized(w, to_string(type, value), s)

I3Protocol_new(w, h, s) ==
  write(write_json(w, "Header", h, s), Raw("[ []"), s)

\* mutant of refresh: the array is written before its separator
refreshArrayFirst(w, status, s) ==
  write(write_json(w, "Vec<Block>", status, s), Raw(","), s)

refresh(w, status, s) ==
  write_json(write(w, Raw(","), s), "Vec<Block>", status, s)

\* mutant of drop: nothing is written when the encoder goes away
dropSilently(w, s) == w

drop(w, s) == write(w, Raw("]"), s)

Writer == [buf |-> wbuf, out |-> out]

SetWriter(w) == wbuf' = w.buf /\ out' = w.out

----------------------------------------------------------------------------
(* widget.rs: what a widget's update() can return *)

\* the k-th Block produced by widget i
Block(i, k) == <<i, k>>

\* what the model records of a widget: the refresh_interval of its updates
\* (constant per widget, as in every widget of src/src/widgets; -1 until its
\* first update), the number of update() calls, the number of Blocks it
\* produced, whether it returned None, and the kind of its first result.
\* kind is "any" for an arbitrary implementation of Widget, or names a widget
\* of src/src/widgets; for those, src is the state its data source was in at
\* the last update() and last is how that update() ended
WidgetNew ==
  [interval |-> -1, calls |-> 0, blocks |-> 0, done |-> FALSE,
   first |-> "unpolled", kind |-> "any", src |-> "none", last |-> "unpolled"]

\* the widgets of src/src/widgets that read a data source of the system
Kinds == {"cpu", "network", "volume", "battery"}

\* CpuWidget::update: read_status is Err when /proc/stat cannot be read or
\* has no line for the core, tokens[1..5] and from_str_radix(..).unwrap()
\* panic on a short or malformed line, and the u64 subtractions of draw_bar
\* overflow on decreased counters (a panic with overflow checks; without
\* them the wrapped quotient can run ret[idx] out of bounds)
CpuWidget_update(src) ==
  CASE src \in {"missing", "unreadable", "absent"} -> {"none"}
    [] src \in {"short", "malformed"} -> {"panic"}
    [] src = "decreased" -> {"panic", "data"}
    [] OTHER -> {"data"}

\* NetworkSpeedWidget::update: read_stat is Err when a file cannot be read
\* or is empty, from_str_radix(..).unwrap() panics on a malformed line, and
\* rx - earlier.rx overflows on a decreased counter (a panic with overflow
\* checks, a wrapped rate without)
NetworkSpeedWidget_update(src) ==
  CASE src \in {"missing", "unreadable", "absent", "short"} -> {"none"}
    [] src = "malformed" -> {"panic"}
    [] src = "decreased" -> {"panic", "data"}
    [] OTHER -> {"data"}

\* VolumeWidget::update: None unless get_volume is Ok(Some(..))
VolumeWidget_update(src) ==
  CASE src \in {"missing", "unreadable", "absent"} -> {"none"}
    [] OTHER -> {"data"}

\* BatteryWidget::update: always a Block, "Unknown" when BatteryState::get
\* is None; time_remaining divides by rate, and Duration::seconds panics on
\* the i64::MAX that an infinite quotient is cast to
BatteryWidget_update(src) ==
  CASE src = "zero_rate" -> {"panic"}
    [] OTHER -> {"data"}

\* how update() of a widget of this kind can end for a source state
Update(kind, src) ==
  CASE kind = "cpu" -> CpuWidget_update(src)
    [] kind = "network" -> NetworkSpeedWidget_update(src)
    [] kind = "volume" -> VolumeWidget_update(src)
    [] kind = "battery" -> BatteryWidget_update(src)

\* the refresh_interval these widgets return, in seconds
Interval(kind) == IF kind = "battery" THEN 5 ELSE 1

Intervals(i) ==
  IF At(widgets, i).interval = -1 THEN 0 .. MaxInterval
  ELSE {At(widgets, i).interval}

WidgetUpdate(interval, data) == [refresh_interval |-> interval, data |-> data]

Outcomes(i) ==
  {None} \cup
  { Some(WidgetUpdate(d, x)) :
      d \in Intervals(i),
      x \in {None, Some(Block(i, At(widgets, i).blocks + 1))} }

\* the states of its data source a widget of this kind is polled in: it
\* cannot be opened, a read fails, an entry is missing (no mixer element), a
\* line has too few fields, a field is not a number, or the values are above
\* or below the ones of the previous update(); zero_rate is a battery that
\* charges or discharges with current_now = 0
SourcesOf(kind) ==
  CASE kind = "cpu" ->
         {"missing", "unreadable", "short", "malformed", "increased", "decreased"}
    [] kind = "network" ->
         {"missing", "unreadable", "malformed", "increased", "decreased"}
    [] kind = "volume" -> {"missing", "absent", "increased"}
    [] kind = "battery" -> {"missing", "malformed", "increased", "zero_rate"}

\* what update() of widget i returns when it ends this way
ResultOf(i, end) ==
  IF end = "none" THEN None
  ELSE Some(WidgetUpdate(Interval(At(widgets, i).kind),
                         Some(Block(i, At(widgets, i).blocks + 1))))

\* a poll of widget i that returns: the source state and the result
Polls(i) ==
  LET w == At(widgets, i)
  IN IF w.kind = "any"
       THEN {[src |-> "none", result |-> r] : r \in Outcomes(i)}
       ELSE {[src |-> x[1], result |-> ResultOf(i, x[2])] :
               x \in {y \in SourcesOf(w.kind) \X {"none", "data"} :
                        y[2] \in Update(w.kind, y[1])}}

\* the observation record of widget i after its update() returned p.result
Observe(i, p, priming) ==
  LET w == At(widgets, i)
      r == p.result
      end == IF r = None THEN "none"
             ELSE IF is_some(unwrap(r).data) THEN "data" ELSE "nodata"
  IN [widgets EXCEPT ![i + 1] =
        [interval |-> IF r = None THEN w.interval ELSE unwrap(r).refresh_interval,
         calls  |-> w.calls + 1,
         blocks |-> IF end = "data" THEN w.blocks + 1 ELSE w.blocks,
         done   |-> w.done \/ end = "none",
         first  |-> IF priming THEN end ELSE w.first,
         kind   |-> w.kind,
         src    |-> p.src,
         last   |-> IF w.kind = "any" THEN w.last ELSE end]]

\* mutant of IsPopped: pop yields any event of the queue
IsPoppedAny(e, q) == BagIn(e, q)

\* Ord for RefreshEvent compares the due times, reversed: BinaryHeap::pop
\* yields an event no other event is due before
IsPopped(e, q) == BagIn(e, q) /\ \A f \in BagToSet(q) : e[1] <= f[1]

RefreshEvent(due, i) == <<due, i>>

----------------------------------------------------------------------------
----------------------------------------------------------------------------
(* widgets/stock.rs: StockClient, its refresh thread and StockWidget *)

Symbols == {"MSFT", "GOOG"}

\* StockPrice as query_latest returns it: the fields update() reads, for a
\* price that fell, rose or stayed since the previous close
StockPrices ==
  {[previous_close |-> 2, close |-> 1], [previous_close |-> 1, close |-> 2],
   [previous_close |-> 1, close |-> 1]}

\* StockClient::new
StockClient_new ==
  [symbols |-> <<>>, cache |-> [s \in Symbols |-> None],
   refresh_thread |-> None]

Range(s) == {s[i] : i \in 1 .. Len(s)}

\* HashMap<String, StockPrice>: Some(price) for the keys it holds.  What one
\* iteration of the thread's loop can send: a price for each captured symbol
\* that is due and whose query_latest returned Some, possibly for none
Messages(symbols) ==
  {m \in [Symbols -> {None} \cup {Some(p) : p \in StockPrices}] :
     \A s \in Symbols : is_some(m[s]) => s \in Range(symbols)}

\* for (k, v) in new_data { self.cache.insert(k, v) }
Insert(cache, new_data) ==
  [s \in Symbols |-> IF is_some(new_data[s]) THEN new_data[s] ELSE cache[s]]

\* mutant of try_recv: recv, which waits for a message
try_recvBlocking(rx) ==
  IF rx = <<>> THEN [ready |-> FALSE, data |-> None, rest |-> rx]
  ELSE [ready |-> TRUE, data |-> Some(Head(rx)), rest |-> Tail(rx)]

\* Receiver::try_recv: the oldest message if there is one, Err otherwise
\* (Empty, or Disconnected once the thread is gone), at once in both cases
try_recv(rx) ==
  IF rx = <<>> THEN [ready |-> TRUE, data |-> None, rest |-> rx]
  ELSE [ready |-> TRUE, data |-> Some(Head(rx)), rest |-> Tail(rx)]

\* the color of the price's span
PriceColor(latest) ==
  IF latest.previous_close > latest.close THEN "#ff0000"
  ELSE IF latest.previous_close < latest.close THEN "#00ff00"
  ELSE "#ffffff"

\* StockWidget::update after refresh(): the Block for the symbol and the
\* cache, a span per append_full_text (its color and its text; the price's
\* text is its close)
StockWidget_update(symbol, cache) ==
  LET b0 == Block_append_full_text(Block_use_pango(Block_new),
                                   <<"#eaeaea", symbol>>)
      b1 == IF is_some(cache[symbol])
              THEN Block_append_full_text(b0,
                     <<PriceColor(unwrap(cache[symbol])),
                       HexDigit(unwrap(cache[symbol]).close)>>)
              ELSE Block_append_full_text(b0, <<"#777777", "waiting">>)
  IN Some(WidgetUpdate(1, Some(b1)))

----------------------------------------------------------------------------
(* The state after construction, and the steps of update_loop *)

Init ==
  /\ widgets = <<>>
  /\ idx_map = <<>>
  /\ event_queue = EmptyBag
  /\ result_buffer = <<>>
  /\ pc = "setup"
  /\ size = 0
  /\ idx = 0
  /\ next_event = RefreshEvent(0, 0)
  /\ update = None
  /\ now = 0
  /\ polls = 0
  /\ overflow_checks = "unknown"
  /\ proto_inst = "none"
  /\ wbuf = <<>>
  /\ out = <<>>
  /\ sink = "ok"
  /\ refreshed = <<>>
  /\ header = None
  /\ block = None
  /\ last_call = [header |-> <<>>, block |-> <<>>]
  /\ wire = None
  /\ decorated = None
  /\ client = StockClient_new
  /\ thread = [symbols |-> <<>>, state |-> "none", spawned |-> 0]
  /\ channel = <<>>
  /\ stock = [pc |-> "idle", symbol |-> "none", shown |-> "none",
              result |-> None, received |-> [s \in Symbols |-> None]]

\* WidgetCollection::push
Push ==
  /\ pc = "setup"
  /\ Len(widgets) < MaxWidgets
  /\ widgets' = Append(widgets, WidgetNew)
  /\ UNCHANGED <<idx_map, event_queue, result_buffer, pc, size, idx,
                 next_event, update, now, polls, overflow_checks, proto_inst,
                 wbuf, out, sink, refreshed>>
  /\ UNCHANGED render_vars
  /\ UNCHANGED stock_vars

\* WidgetCollection::push of a widget of src/src/widgets
PushSource ==
  /\ pc = "setup"
  /\ Len(widgets) < MaxSources
  /\ \E kind \in Kinds :
       widgets' = Append(widgets, [WidgetNew EXCEPT !.kind = kind])
  /\ UNCHANGED <<idx_map, event_queue, result_buffer, pc, size, idx,
                 next_event, update, now, polls, overflow_checks, proto_inst,
                 wbuf, out, sink, refreshed>>
  /\ UNCHANGED render_vars
  /\ UNCHANGED stock_vars

\* I3Protocol::new
New ==
  /\ pc = "setup"
  /\ proto_inst = "none"
  /\ proto_inst' = "live"
  /\ SetWriter(I3Protocol_new(Writer, Header_new(1), sink))
  /\ UNCHANGED <<widgets, idx_map, event_queue, result_buffer, pc, size, idx,
                 next_event, update, now, polls, overflow_checks, sink,
                 refreshed>>
  /\ UNCHANGED render_vars
  /\ UNCHANGED stock_vars

\* update_loop, entry: clear the queue and take the size
UpdateLoop ==
  /\ pc = "setup"
  /\ proto_inst = "live"
  /\ event_queue' = EmptyBag
  /\ size' = Len(widgets)
  /\ idx' = 0
  /\ pc' = IF Len(widgets) = 0 THEN "loop" ELSE "prime"
  /\ UNCHANGED <<widgets, idx_map, result_buffer, next_event, update, now,
                 polls, overflow_checks, proto_inst, wbuf, out, sink,
                 refreshed>>
  /\ UNCHANGED render_vars
  /\ UNCHANGED stock_vars

\* mutant of Primed: the new Block is put in front of the snapshot
PrimedInFront(buffer, u) ==
  IF is_some(u.data) THEN <<unwrap(u.data)>> \o buffer ELSE buffer

\* lines 146-148 of the priming pass: the snapshot after the poll returned u
Primed(buffer, u) ==
  IF is_some(u.data) THEN Append(buffer, unwrap(u.data)) ELSE buffer

\* mutant of PrimedQueue: the priming pass pushes the widget's event twice
PrimedQueueTwice(queue, u, i, t) ==
  queue (+) SetToBag({RefreshEvent(t + u.refresh_interval, i)})
        (+) SetToBag({RefreshEvent(t + u.refresh_interval, i)})

\* lines 142-145: the event pushed for widget i whose first poll returned u
PrimedQueue(queue, u, i, t) ==
  queue (+) SetToBag({RefreshEvent(t + u.refresh_interval, i)})

\* line 149: result_buffer.len() - 1 in a build that wraps
SlotOf(buffer) == WrappingSub(Len(buffer), 1)

\* line 149 computes 0 - 1
SlotOverflows(buffer) == Len(buffer) = 0

\* the build profiles that can be running when 0 - 1 is computed
Profiles == IF overflow_checks = "unknown" THEN {"on", "off"} ELSE {overflow_checks}

\* mutant of NoSlot: a widget that returned None gets the first index
NoSlotFirst(n) == 0

\* line 151: the entry of a widget that returned None
NoSlot(n) == n

\* the priming pass, one iteration of the for loop
Prime ==
  /\ pc = "prime"
  /\ \E p \in Polls(idx) : LET r == p.result IN
       /\ widgets' = Observe(idx, p, TRUE)
       /\ IF r = None
            THEN /\ idx_map' = Append(idx_map, NoSlot(size))
                 /\ idx' = idx + 1
                 /\ pc' = IF idx + 1 = size THEN "loop" ELSE "prime"
                 /\ UNCHANGED <<event_queue, result_buffer, overflow_checks>>
            ELSE LET u == unwrap(r)
                     buffer == Primed(result_buffer, u)
                 IN /\ event_queue' = PrimedQueue(event_queue, u, idx, now)
                    /\ result_buffer' = buffer
                    /\ \E profile \in Profiles :
                         /\ overflow_checks' = IF SlotOverflows(buffer)
                                                 THEN profile
                                                 ELSE overflow_checks
                         /\ IF SlotOverflows(buffer) /\ profile = "on"
                              THEN /\ pc' = "unwind"
                                   /\ UNCHANGED <<idx_map, idx>>
                              ELSE /\ idx_map' = Append(idx_map, SlotOf(buffer))
                                   /\ idx' = idx + 1
                                   /\ pc' = IF idx + 1 = size THEN "loop"
                                            ELSE "prime"
  /\ UNCHANGED <<size, next_event, update, now, polls, proto_inst, wbuf, out,
                 sink, refreshed>>
  /\ UNCHANGED render_vars
  /\ UNCHANGED stock_vars

\* mutant of Popped: the event is read but stays in the queue
PoppedKept(queue, e) == queue

\* line 156: the queue after BinaryHeap::pop returned e
Popped(queue, e) == queue (-) SetToBag({e})

\* mutant of sleep_duration: the difference is taken as it is
sleep_durationSigned(due, t) == due - t

\* lines 158-161: duration_since is Err when the due time is earlier than
\* now, and the wait is then zero
sleep_duration(due, t) == IF due >= t THEN due - t ELSE 0

\* lines 155-163: pop the next event and sleep until it is due
Pop ==
  /\ pc = "loop"
  /\ polls < MaxPolls
  /\ \E e \in BagToSet(event_queue) :
       /\ IsPopped(e, event_queue)
       /\ event_queue' = Popped(event_queue, e)
       /\ next_event' = e
       /\ now' = now + sleep_duration(e[1], now)
  /\ pc' = "popped"
  /\ UNCHANGED <<widgets, idx_map, result_buffer, size, idx, update, polls,
                 overflow_checks, proto_inst, wbuf, out, sink, refreshed>>
  /\ UNCHANGED render_vars
  /\ UNCHANGED stock_vars

\* line 165: self.widgets[next_event.1].update()
Poll ==
  /\ pc = "popped"
  /\ \E p \in Polls(next_event[2]) : LET r == p.result IN
       /\ update' = r
       /\ widgets' = Observe(next_event[2], p, FALSE)
       /\ pc' = IF r = None THEN "loop" ELSE "polled"
  /\ polls' = polls + 1
  /\ UNCHANGED <<idx_map, event_queue, result_buffer, size, idx, next_event,
                 now, overflow_checks, proto_inst, wbuf, out, sink, refreshed>>
  /\ UNCHANGED render_vars
  /\ UNCHANGED stock_vars

\* mutant of Target: the widget's own index is used as its snapshot index
TargetIsWidgetIndex(i) == i

\* the index the event loop overwrites for widget i
Target(i) == At(idx_map, i)

\* std::mem::swap of result_buffer[k] and the Block of the update
Swapped(buffer, k, data) == [buffer EXCEPT ![k + 1] = data]

\* mutant of Applied: an update without a Block blanks the widget's slot
AppliedBlanking(buffer, k, u) ==
  IF is_some(u.data) THEN Swapped(buffer, k, unwrap(u.data))
  ELSE IF InBounds(buffer, k) THEN Swapped(buffer, k, Block(-1, 0))
  ELSE buffer

\* lines 166-171: the snapshot after the update u of the widget with slot k
Applied(buffer, k, u) ==
  IF is_some(u.data) THEN Swapped(buffer, k, unwrap(u.data)) ELSE buffer

\* lines 166-171: the update after the swap holds the Block it replaced
Taken(buffer, k, u) ==
  IF is_some(u.data) THEN [u EXCEPT !.data = Some(At(buffer, k))] ELSE u

\* lines 173-176: the queue with the next event of widget i
Scheduled(queue, u, i, t) ==
  queue (+) SetToBag({RefreshEvent(t + u.refresh_interval, i)})

\* lines 166-176: move the new Block into the snapshot (indexing
\* result_buffer out of bounds panics), then schedule the widget's next poll
Apply ==
  /\ pc = "polled"
  /\ LET u == unwrap(update)
         k == Target(next_event[2])
     IN IF is_some(u.data) /\ ~InBounds(result_buffer, k)
          THEN /\ pc' = "unwind"
               /\ UNCHANGED <<result_buffer, update, event_queue>>
          ELSE /\ result_buffer' = Applied(result_buffer, k, u)
               /\ update' = Some(Taken(result_buffer, k, u))
               /\ event_queue' = Scheduled(event_queue, u, next_event[2], now)
               /\ pc' = "scheduled"
  /\ UNCHANGED <<widgets, idx_map, size, idx, next_event, now, polls,
                 overflow_checks, proto_inst, wbuf, out, sink, refreshed>>
  /\ UNCHANGED render_vars
  /\ UNCHANGED stock_vars

\* line 178: proto_inst.refresh(&self.result_buffer)
Refresh ==
  /\ pc = "scheduled"
  /\ SetWriter(refresh(Writer, result_buffer, sink))
  /\ refreshed' = Append(refreshed, result_buffer)
  /\ pc' = "loop"
  /\ UNCHANGED <<widgets, idx_map, event_queue, result_buffer, size, idx,
                 next_event, update, now, polls, overflow_checks, proto_inst,
                 sink>>
  /\ UNCHANGED render_vars
  /\ UNCHANGED stock_vars

\* mutant of is_empty: a queue of one event counts as empty
is_emptyAtMostOne(queue) == BagCardinality(queue) <= 1

\* BinaryHeap::is_empty
is_empty(queue) == BagToSet(queue) = {}

\* line 155: the queue is empty, update_loop returns
Return ==
  /\ pc = "loop"
  /\ is_empty(event_queue)
  /\ pc' = "return"
  /\ UNCHANGED <<widgets, idx_map, event_queue, result_buffer, size, idx,
                 next_event, update, now, polls, overflow_checks, proto_inst,
                 wbuf, out, sink, refreshed>>
  /\ UNCHANGED render_vars
  /\ UNCHANGED stock_vars

\* Drop for I3Protocol: proto_inst goes out of scope, on return or unwinding
Drop ==
  /\ pc \in {"return", "unwind"}
  /\ SetWriter(drop(Writer, sink))
  /\ proto_inst' = "dropped"
  /\ pc' = IF pc = "return" THEN "returned" ELSE "unwound"
  /\ UNCHANGED <<widgets, idx_map, event_queue, result_buffer, size, idx,
                 next_event, update, now, polls, overflow_checks, sink,
                 refreshed>>
  /\ UNCHANGED render_vars
  /\ UNCHANGED stock_vars

----------------------------------------------------------------------------
(* The encoder used on its own: new, refresh with any status, drop *)

RECURSIVE Statuses(_)
Statuses(n) ==
  IF n = 0 THEN {<<>>}
  ELSE Statuses(n - 1) \cup
       { Append(st, Block(i, 1)) :
           st \in {t \in Statuses(n - 1) : Len(t) = n - 1},
           i \in 0 .. MaxStatusLen - 1 }

\* I3Protocol::refresh called by the owner of the encoder
RefreshCall ==
  /\ pc = "setup"
  /\ proto_inst = "live"
  /\ Len(refreshed) < MaxRefreshes
  /\ \E status \in Statuses(MaxStatusLen) :
       /\ SetWriter(refresh(Writer, status, sink))
       /\ refreshed' = Append(refreshed, status)
  /\ UNCHANGED <<widgets, idx_map, event_queue, result_buffer, pc, size, idx,
                 next_event, update, now, polls, overflow_checks, proto_inst,
                 sink>>
  /\ UNCHANGED render_vars
  /\ UNCHANGED stock_vars

\* the owner lets the encoder go out of scope
DropCall ==
  /\ pc = "setup"
  /\ proto_inst = "live"
  /\ SetWriter(drop(Writer, sink))
  /\ proto_inst' = "dropped"
  /\ UNCHANGED <<widgets, idx_map, event_queue, result_buffer, pc, size, idx,
                 next_event, update, now, polls, overflow_checks, sink,
                 refreshed>>
  /\ UNCHANGED render_vars
  /\ UNCHANGED stock_vars

NextEncoder ==
  \/ New
  \/ RefreshCall
  \/ DropCall

SpecEncoder == Init /\ [][NextEncoder]_vars

\* I3Protocol::refresh when serde_json::to_string returns Err for the status:
\* line 200 has written the separator, line 181 skips the write
RefreshSkips ==
  /\ pc = "setup"
  /\ proto_inst = "live"
  /\ Len(out) < 2 + 2 * MaxRefreshes
  /\ SetWriter(write_serialized(write(Writer, Raw(","), sink), None, sink))
  /\ UNCHANGED <<widgets, idx_map, event_queue, result_buffer, pc, size, idx,
                 next_event, update, now, polls, overflow_checks, proto_inst,
                 sink, refreshed>>
  /\ UNCHANGED render_vars
  /\ UNCHANGED stock_vars

\* the encoder used on its own, with serializations that can fail
NextSerde ==
  \/ NextEncoder
  \/ RefreshSkips

SpecSerde == Init /\ [][NextSerde]_vars

----------------------------------------------------------------------------
(* A caller builds a Header and a Block with their methods; serde_json
   serializes them *)

Versions == 0 .. MaxVersion

Texts == {<<>>, <<"a">>}

\* the colors of the four constructors, and one with a channel of each size
Colors ==
  {ColorRGB_red, ColorRGB_green, ColorRGB_blue, ColorRGB_yellow,
   ColorRGB(16, 171, 9)}

\* a method of Header has returned h
HeaderCall(h, call) ==
  /\ header' = Some(h)
  /\ last_call' = [last_call EXCEPT !.header = call]
  /\ wire' = None
  /\ UNCHANGED <<block, decorated>>
  /\ UNCHANGED sched_vars
  /\ UNCHANGED stock_vars

\* Header::new
HeaderNew == \E version \in Versions : HeaderCall(Header_new(version), <<"new">>)

\* Header::click_events
HeaderClickEvents ==
  /\ is_some(header)
  /\ \E enable \in BOOLEAN :
       HeaderCall(Header_click_events(unwrap(header), enable), <<"click_events">>)

\* a method of Block has left b
BlockCall(b, call) ==
  /\ block' = Some(b)
  /\ last_call' = [last_call EXCEPT !.block = call]
  /\ wire' = None
  /\ UNCHANGED <<header, decorated>>
  /\ UNCHANGED sched_vars
  /\ UNCHANGED stock_vars

\* Block::new
BlockNew == BlockCall(Block_new, <<"new">>)

\* Block::instance and Block::name
BlockIdentify ==
  /\ is_some(block)
  /\ \E text \in Texts :
       \/ BlockCall(Block_instance(unwrap(block), text), <<"instance">>)
       \/ BlockCall(Block_name(unwrap(block), text), <<"name">>)

\* Block::full_text and Block::append_full_text
BlockFullText ==
  /\ is_some(block)
  /\ \E text \in Texts :
       \/ BlockCall(Block_full_text(unwrap(block), text), <<"full_text">>)
       \/ /\ Len(unwrap(block).full_text) + Len(text) <= MaxTextLen
          /\ BlockCall(Block_append_full_text(unwrap(block), text),
                       <<"append_full_text">>)

\* Block::short_text
BlockShortText ==
  /\ is_some(block)
  /\ \E text \in Texts :
       BlockCall(Block_short_text(unwrap(block), text), <<"short_text">>)

\* Block::color
BlockColor ==
  /\ is_some(block)
  /\ \E c \in Colors : BlockCall(Block_color(unwrap(block), c), <<"color", c>>)

\* Block::clear_color; the call is recorded with the color it removed
BlockClearColor ==
  /\ is_some(block)
  /\ BlockCall(Block_clear_color(unwrap(block)),
               <<"clear_color", unwrap(block).color>>)

\* Block::use_pango and Block::use_plain_text
BlockMarkup ==
  /\ is_some(block)
  /\ \/ BlockCall(Block_use_pango(unwrap(block)), <<"use_pango">>)
     \/ BlockCall(Block_use_plain_text(unwrap(block)), <<"use_plain_text">>)

\* serde_json::to_string of the Header or of the Block
Serialize ==
  /\ \/ is_some(header) /\
          wire' = Some([type |-> "Header",
                        json |-> unwrap(to_string("Header", unwrap(header)))])
     \/ is_some(block) /\
          wire' = Some([type |-> "Block",
                        json |-> unwrap(to_string("Block", unwrap(block)))])
  /\ UNCHANGED <<header, block, last_call, decorated>>
  /\ UNCHANGED sched_vars
  /\ UNCHANGED stock_vars

NextRender ==
  \/ HeaderNew
  \/ HeaderClickEvents
  \/ BlockNew
  \/ BlockIdentify
  \/ BlockFullText
  \/ BlockShortText
  \/ BlockColor
  \/ BlockClearColor
  \/ BlockMarkup
  \/ Serialize

SpecRender == Init /\ [][NextRender]_vars

----------------------------------------------------------------------------
(* widget.rs: WidgetDecorator *)

\* the functions given to decorate_with
Procs == {"color", "clear_color", "append_full_text", "use_pango", "nothing"}

\* (self.proc)(data): the Block after the function has run on it
Call(proc, b) ==
  CASE proc = "color" -> Block_color(b, ColorRGB_red)
    [] proc = "clear_color" -> Block_clear_color(b)
    [] proc = "append_full_text" -> Block_append_full_text(b, <<"a">>)
    [] proc = "use_pango" -> Block_use_pango(b)
    [] OTHER -> b

\* mutant of WidgetDecorator_update: the function runs twice on the Block
WidgetDecorator_updateTwice(inner_result, proc) ==
  IF is_some(inner_result)
    THEN LET r == unwrap(inner_result)
         IN IF is_some(r.data)
              THEN [result |-> Some([r EXCEPT !.data =
                                 Some(Call(proc, Call(proc, unwrap(r.data))))]),
                    calls |-> 2]
              ELSE [result |-> Some(r), calls |-> 0]
    ELSE [result |-> None, calls |-> 0]

\* Widget::update for WidgetDecorator, given what self.inner.update()
\* returned: the result, and the number of calls of self.proc it made
WidgetDecorator_update(inner_result, proc) ==
  IF is_some(inner_result)
    THEN LET r == unwrap(inner_result)
         IN IF is_some(r.data)
              THEN [result |-> Some([r EXCEPT !.data =
                                       Some(Call(proc, unwrap(r.data)))]),
                    calls |-> 1]
              ELSE [result |-> Some(r), calls |-> 0]
    ELSE [result |-> None, calls |-> 0]

\* mutant of decorate_with: the new function goes under the ones already there
decorate_withInnermost(layers, proc) == <<proc>> \o layers

\* Decoratable::decorate_with on a widget that is decorated with the
\* functions of layers (innermost first): WidgetDecorator { inner: self, proc }
decorate_with(layers, proc) == Append(layers, proc)

\* update() of the outermost WidgetDecorator: self.inner.update() is the
\* update() of the layers below it; the result, and the functions called
\* in the order of their calls
RECURSIVE Layers_update(_, _)
Layers_update(layers, inner_result) ==
  IF layers = <<>> THEN [result |-> inner_result, calls |-> <<>>]
  ELSE LET proc == layers[Len(layers)]
           below == Layers_update(SubSeq(layers, 1, Len(layers) - 1),
                                  inner_result)
           top == WidgetDecorator_update(below.result, proc)
       IN [result |-> top.result,
           calls |-> below.calls \o [n \in 1 .. top.calls |-> proc]]

\* the Blocks the inner widget produces
InnerBlocks ==
  { Block_full_text(b, text) :
      b \in {Block_new, Block_color(Block_new, ColorRGB_blue),
             Block_use_pango(Block_new)},
      text \in Texts }

\* what self.inner.update() can return
InnerOutcomes ==
  {None} \cup
  { Some(WidgetUpdate(d, x)) :
      d \in 0 .. MaxInterval,
      x \in {None} \cup {Some(b) : b \in InnerBlocks} }

\* Decoratable::decorate_with, on a widget and on a decorated widget
DecorateWith ==
  /\ \E proc \in Procs :
       IF decorated = None
         THEN decorated' = Some([proc |-> proc, polls |-> 0, calls |-> 0,
                                 inner |-> None, result |-> None,
                                 procs |-> <<proc>>,
                                 layers |-> decorate_with(<<>>, proc),
                                 outer |-> [result |-> None, calls |-> <<>>]])
         ELSE /\ unwrap(decorated).polls = 0
              /\ Len(unwrap(decorated).layers) < MaxLayers
              /\ decorated' =
                   Some([unwrap(decorated) EXCEPT
                           !.procs = Append(@, proc),
                           !.layers = decorate_with(@, proc)])
  /\ UNCHANGED <<header, block, last_call, wire>>
  /\ UNCHANGED sched_vars
  /\ UNCHANGED stock_vars

\* update() of the WidgetDecorator: of the first layer, and of the outermost
DecoratorUpdate ==
  /\ is_some(decorated)
  /\ unwrap(decorated).polls < MaxDecorated
  /\ \E inner \in InnerOutcomes :
       LET d == unwrap(decorated)
           r == WidgetDecorator_update(inner, d.proc)
       IN decorated' = Some([proc |-> d.proc, polls |-> d.polls + 1,
                             calls |-> r.calls, inner |-> inner,
                             result |-> r.result,
                             procs |-> d.procs, layers |-> d.layers,
                             outer |-> Layers_update(d.layers, inner)])
  /\ UNCHANGED <<header, block, last_call, wire>>
  /\ UNCHANGED sched_vars
  /\ UNCHANGED stock_vars

NextDecorator ==
  \/ DecorateWith
  \/ DecoratorUpdate

SpecDecorator == Init /\ [][NextDecorator]_vars

----------------------------------------------------------------------------
(* widgets/stock.rs: the steps of the client, the widget and the thread *)

\* StockClient::create_widget
CreateWidget ==
  /\ stock.pc = "idle"
  /\ Len(client.symbols) < MaxSymbols
  /\ \E symbol \in Symbols :
       client' = [client EXCEPT !.symbols = Append(@, symbol)]
  /\ UNCHANGED <<thread, channel, stock>>
  /\ UNCHANGED sched_vars
  /\ UNCHANGED render_vars

\* StockWidget::update is called: StockClient::refresh runs
\* ensure_refresh_started, which spawns the thread if there is none; the
\* thread captures the symbols of this moment
EnsureRefreshStarted ==
  /\ stock.pc = "idle"
  /\ \E symbol \in Range(client.symbols) :
       stock' = [stock EXCEPT !.pc = "refresh", !.symbol = symbol]
  /\ IF client.refresh_thread = None
       THEN /\ thread' = [symbols |-> client.symbols, state |-> "running",
                           spawned |-> thread.spawned + 1]
            /\ client' = [client EXCEPT !.refresh_thread = Some("handle")]
       ELSE UNCHANGED <<thread, client>>
  /\ UNCHANGED channel
  /\ UNCHANGED sched_vars
  /\ UNCHANGED render_vars

\* the rest of StockClient::refresh and of StockWidget::update: try_recv,
\* the cache takes what was received, the Block is built and returned
Refreshed ==
  /\ stock.pc = "refresh"
  /\ try_recv(channel).ready
  /\ LET got == try_recv(channel)
         cache == IF is_some(got.data)
                    THEN Insert(client.cache, unwrap(got.data))
                    ELSE client.cache
     IN /\ channel' = got.rest
        /\ client' = [client EXCEPT !.cache = cache]
        /\ stock' = [pc |-> "idle", symbol |-> stock.symbol,
                     shown |-> stock.symbol,
                     result |-> StockWidget_update(stock.symbol, cache),
                     received |-> IF is_some(got.data)
                                    THEN Insert(stock.received, unwrap(got.data))
                                    ELSE stock.received]
  /\ UNCHANGED thread
  /\ UNCHANGED sched_vars
  /\ UNCHANGED render_vars

\* one iteration of the thread's loop: sx.send(data), also when data is
\* empty; with no symbol captured, min_by_key(..).unwrap() then panics
ThreadSends ==
  /\ thread.state = "running"
  /\ Len(channel) < MaxChannel
  /\ \E data \in Messages(thread.symbols) : channel' = Append(channel, data)
  /\ thread' = [thread EXCEPT !.state = IF thread.symbols = <<>>
                                         THEN "panicked" ELSE "running"]
  /\ UNCHANGED <<client, stock>>
  /\ UNCHANGED sched_vars
  /\ UNCHANGED render_vars

\* query_latest panics in the thread: f32::from_str(&latest.open).unwrap()
ThreadPanics ==
  /\ thread.state = "running"
  /\ thread.symbols # <<>>
  /\ thread' = [thread EXCEPT !.state = "panicked"]
  /\ UNCHANGED <<client, channel, stock>>
  /\ UNCHANGED sched_vars
  /\ UNCHANGED render_vars

NextStock ==
  \/ CreateWidget
  \/ EnsureRefreshStarted
  \/ Refreshed
  \/ ThreadSends
  \/ ThreadPanics

SpecStock == Init /\ [][NextStock]_vars

----------------------------------------------------------------------------
(* Failures: a sink that rejects bytes, a widget whose update() panics *)

\* the sink starts to reject bytes; seen by the next write
SinkFails ==
  /\ pc \in {"scheduled", "return", "unwind"}
  /\ sink = "ok"
  /\ sink' = "fail"
  /\ UNCHANGED <<widgets, idx_map, event_queue, result_buffer, pc, size, idx,
                 next_event, update, now, polls, overflow_checks, proto_inst,
                 wbuf, out, refreshed>>
  /\ UNCHANGED render_vars
  /\ UNCHANGED stock_vars

\* BufWriter::write_all touches the sink, and can return Err, only when the
\* buffer has no room for the data or the data is as large as the buffer.
\* The markers are a few bytes and a Header is small; an array of Blocks has
\* any size: a buffer that retains one may have no room left
MayLackRoom(buf) ==
  \E i \in 1 .. Len(buf) : buf[i][1] = "array" /\ buf[i][2] # <<>>

\* refresh when write_all returns Err: expect("Cannot write") panics, in the
\* write of the separator (no room) or, after the separator was buffered, in
\* the write of the array (no room, or a large array)
RefreshPanics ==
  /\ pc = "scheduled"
  /\ sink = "fail"
  /\ IF MayLackRoom(wbuf)
       THEN \/ UNCHANGED <<wbuf, out>>
            \/ SetWriter(write(Writer, Raw(","), sink))
       ELSE SetWriter(write(Writer, Raw(","), sink))
  /\ refreshed' = Append(refreshed, result_buffer)
  /\ pc' = "unwind"
  /\ UNCHANGED <<widgets, idx_map, event_queue, result_buffer, size, idx,
                 next_event, update, now, polls, overflow_checks, proto_inst,
                 sink>>
  /\ UNCHANGED render_vars
  /\ UNCHANGED stock_vars

\* drop when write_all returns Err (no room for the marker): the panic
\* aborts the process if it is already unwinding, and unwinds out of a
\* returning update_loop otherwise
DropPanics ==
  /\ pc \in {"return", "unwind"}
  /\ sink = "fail"
  /\ MayLackRoom(wbuf)
  /\ proto_inst' = "dropped"
  /\ pc' = IF pc = "unwind" THEN "aborted" ELSE "unwound"
  /\ UNCHANGED <<widgets, idx_map, event_queue, result_buffer, size, idx,
                 next_event, update, now, polls, overflow_checks, wbuf, out,
                 sink, refreshed>>
  /\ UNCHANGED render_vars
  /\ UNCHANGED stock_vars

\* update() of the widget polled by the event loop panics
PollPanics ==
  /\ pc = "popped"
  /\ polls' = polls + 1
  /\ pc' = "unwind"
  /\ UNCHANGED <<widgets, idx_map, event_queue, result_buffer, size, idx,
                 next_event, update, now, overflow_checks, proto_inst, wbuf,
                 out, sink, refreshed>>
  /\ UNCHANGED render_vars
  /\ UNCHANGED stock_vars

\* update() of the widget polled by the priming pass panics
PrimePanics ==
  /\ pc = "prime"
  /\ pc' = "unwind"
  /\ UNCHANGED <<widgets, idx_map, event_queue, result_buffer, size, idx,
                 next_event, update, now, polls, overflow_checks, proto_inst,
                 wbuf, out, sink, refreshed>>
  /\ UNCHANGED render_vars
  /\ UNCHANGED stock_vars

Next ==
  \/ Push
  \/ New
  \/ UpdateLoop
  \/ Prime
  \/ Pop
  \/ Poll
  \/ Apply
  \/ Refresh
  \/ Return
  \/ Drop

Spec == Init /\ [][Next]_vars

\* the encoders made so far: each wrote its Header
Encoders == Cardinality({k \in 1 .. Len(out) : out[k][1] = "object"})

\* update_loop has returned and its caller, who still owns the collection,
\* goes on: it can push widgets, make an encoder and call update_loop again
Again ==
  /\ pc = "returned"
  /\ Encoders < MaxCalls
  /\ pc' = "setup"
  /\ proto_inst' = "none"
  /\ UNCHANGED <<widgets, idx_map, event_queue, result_buffer, size, idx,
                 next_event, update, now, polls, overflow_checks, wbuf, out,
                 sink, refreshed>>
  /\ UNCHANGED render_vars
  /\ UNCHANGED stock_vars

NextAgain ==
  \/ Next
  \/ Again

SpecAgain == Init /\ [][NextAgain]_vars

\* time passes while the update() called by the event loop runs
Tick ==
  /\ pc = "popped"
  /\ now < MaxClock
  /\ now' = now + 1
  /\ UNCHANGED <<widgets, idx_map, event_queue, result_buffer, pc, size, idx,
                 next_event, update, polls, overflow_checks, proto_inst, wbuf,
                 out, sink, refreshed>>
  /\ UNCHANGED render_vars
  /\ UNCHANGED stock_vars

NextClock ==
  \/ Next
  \/ Tick

SpecClock == Init /\ [][NextClock]_vars

\* the single thread that runs update_loop keeps running
SpecLive == Spec /\ WF_vars(Next)

\* update() of a widget of src/src/widgets panics, in the priming pass or in
\* the event loop
SourcePanics ==
  /\ pc \in {"prime", "popped"}
  /\ LET i == IF pc = "prime" THEN idx ELSE next_event[2]
         w == At(widgets, i)
     IN /\ w.kind # "any"
        /\ \E src \in SourcesOf(w.kind) :
             /\ "panic" \in Update(w.kind, src)
             /\ widgets' = [widgets EXCEPT ![i + 1] =
                              [w EXCEPT !.calls = @ + 1, !.src = src,
                                        !.last = "panic"]]
  /\ polls' = IF pc = "popped" THEN polls + 1 ELSE polls
  /\ pc' = "unwind"
  /\ UNCHANGED <<idx_map, event_queue, result_buffer, size, idx, next_event,
                 update, now, overflow_checks, proto_inst, wbuf, out, sink,
                 refreshed>>
  /\ UNCHANGED render_vars
  /\ UNCHANGED stock_vars

\* update_loop on a collection of widgets of src/src/widgets
NextSource ==
  \/ PushSource
  \/ New
  \/ UpdateLoop
  \/ Prime
  \/ Pop
  \/ Poll
  \/ Apply
  \/ Refresh
  \/ Return
  \/ Drop
  \/ SourcePanics

SpecSource == Init /\ [][NextSource]_vars

NextFault ==
  \/ Next
  \/ SinkFails
  \/ RefreshPanics
  \/ DropPanics
  \/ PollPanics
  \/ PrimePanics

SpecFault == Init /\ [][NextFault]_vars

----------------------------------------------------------------------------
(* Vocabulary of the properties *)

Indices == 0 .. Len(widgets) - 1

Widget(i) == At(widgets, i)

\* the widgets whose first poll produced a Block
FirstData == {i \in Indices : Widget(i).first = "data"}

\* the index a widget of FirstData acquired: its rank among them
AcquiredSlot(i) == Cardinality({j \in FirstData : j < i})

\* the first Blocks of the first n widgets, in registration order
RECURSIVE FirstBlocks(_)
FirstBlocks(n) ==
  IF n = 0 THEN <<>>
  ELSE IF Widget(n - 1).first = "data"
         THEN Append(FirstBlocks(n - 1), Block(n - 1, 1))
         ELSE FirstBlocks(n - 1)

\* the priming pass has finished and the event loop has not polled yet
PrimingDone == pc \in {"loop", "popped"} /\ polls = 0

\* the last iteration of the event loop ended with a refresh
JustRefreshed == pc = "loop" /\ update # None

Last(s) == s[Len(s)]

----------------------------------------------------------------------------
(* C1: when the priming pass finishes, the snapshot is exactly the Blocks
   returned by the widgets whose first poll produced one, in registration
   order, and its length is the number of such widgets. *)
C1_PrimedSnapshot ==
  PrimingDone =>
    /\ result_buffer = FirstBlocks(Len(widgets))
    /\ Len(result_buffer) = Cardinality(FirstData)

\* three widgets, the middle one silent at priming: two Blocks, in order
C1_Witness ==
  /\ PrimingDone
  /\ Len(widgets) = 3
  /\ Widget(0).first = "data"
  /\ Widget(1).first # "data"
  /\ Widget(2).first = "data"
  /\ result_buffer = <<Block(0, 1), Block(2, 1)>>

(* C2: once update() of a widget has returned None, update() is not called
   on that widget again: its call count never changes afterwards. *)
C2_NoPollAfterNone ==
  [][\A i \in Indices :
       Widget(i).done => At(widgets', i).calls = Widget(i).calls]_vars

\* a widget completed in the event loop and a later poll returned an update
C2_Witness ==
  /\ pc = "polled"
  /\ \E i \in Indices : Widget(i).done /\ Widget(i).calls = 2

(* C3: after a widget that holds a slot has returned None, every snapshot
   refreshed afterwards shows in that slot the last Block the widget
   produced. *)
C3_FrozenSlot ==
  JustRefreshed =>
    \A i \in FirstData :
      Widget(i).done =>
        At(Last(refreshed), AcquiredSlot(i)) = Block(i, Widget(i).blocks)

\* the widgets that produced their first Block in the event loop
LateData == {i \in Indices : Widget(i).first = "nodata" /\ Widget(i).blocks >= 1}

\* the position of widget i among the widgets that have produced a Block
Position(i) ==
  Cardinality({j \in FirstData \cup LateData : j < i})

(* C4: when a widget that was silent at priming produces its first Block in
   the event loop, the refreshed snapshot has grown by one and the Block is
   at the widget's position in registration order. *)
C4_LateBlockGrowsSnapshot ==
  (/\ JustRefreshed
   /\ next_event[2] \in LateData
   /\ Widget(next_event[2]).blocks = 1
   /\ is_some(unwrap(update).data)) =>
    /\ Len(Last(refreshed)) = Cardinality(FirstData) + Cardinality(LateData)
    /\ InBounds(Last(refreshed), Position(next_event[2]))
    /\ At(Last(refreshed), Position(next_event[2])) = Block(next_event[2], 1)

(* C5: a widget whose priming poll returned an update without a Block is
   scheduled for a later poll, and its idx_map entry designates no index of
   the snapshot, so none held by another widget. *)
C5_SilentWidgetHasNoSlot ==
  \A i \in Indices :
    (i < Len(idx_map) /\ Widget(i).first = "nodata") =>
      ~InBounds(result_buffer, At(idx_map, i))

\* the snapshots of the array records the sink has received
RECURSIVE Arrays(_)
Arrays(s) ==
  IF s = <<>> THEN <<>>
  ELSE IF Last(s)[1] = "array"
         THEN Append(Arrays(SubSeq(s, 1, Len(s) - 1)), Last(s)[2])
         ELSE Arrays(SubSeq(s, 1, Len(s) - 1))

(* C6: a poll of the event loop that returns an update without a Block
   refreshes the same snapshot as the refresh before it, in the calls of
   refresh and in the records of the stream. *)
C6_SilentPollRepeatsSnapshot ==
  (/\ JustRefreshed
   /\ ~is_some(unwrap(update).data)
   /\ Len(refreshed) >= 2) =>
    /\ Last(refreshed) = refreshed[Len(refreshed) - 1]
    /\ Arrays(out) = refreshed
    /\ Last(Arrays(out)) = Arrays(out)[Len(refreshed) - 1]

\* a Block was refreshed, then a silent poll refreshed again
C6_Witness ==
  /\ JustRefreshed
  /\ ~is_some(unwrap(update).data)
  /\ Len(refreshed) = 2
  /\ Len(refreshed[1]) >= 1
  /\ \E i \in Indices : Widget(i).blocks = 2

IsRaw(record, text) == record[1] = "raw" /\ record[2] = text

\* the elements of the JSON array that starts after "[ []": each is preceded
\* by a separator record, and "]" closes the array and ends the stream
RECURSIVE Elements(_, _, _)
Elements(s, i, acc) ==
  IF i > Len(s) THEN [ok |-> TRUE, closed |-> FALSE, elems |-> acc]
  ELSE IF IsRaw(s[i], "]")
         THEN [ok |-> i = Len(s), closed |-> TRUE, elems |-> acc]
  ELSE IF IsRaw(s[i], ",") /\ i < Len(s) /\ s[i + 1][1] = "array"
         THEN Elements(s, i + 2, Append(acc, s[i + 1][2]))
  ELSE [ok |-> FALSE, closed |-> FALSE, elems |-> acc]

\* the stream read as the i3bar protocol: a header object, then the array
Decode(s) ==
  IF Len(s) >= 2 /\ s[1][1] = "object" /\ IsRaw(s[2], "[ []")
    THEN Elements(s, 3, << <<>> >>)
    ELSE [ok |-> FALSE, closed |-> FALSE, elems |-> <<>>]

(* C7: the records written from I3Protocol::new to drop decode as one header
   object followed by one array: an empty array, then one array per call of
   refresh, in call order; the array is open while the encoder lives and
   closed once it is dropped; the header is the first record and the only
   object record. *)
C7_StreamDecodes ==
  proto_inst # "none" =>
    /\ Decode(out).ok
    /\ Decode(out).elems = << <<>> >> \o refreshed
    /\ Decode(out).closed <=> proto_inst = "dropped"
    /\ out[1] = <<"object", << <<"version", 1>> >> >>
    /\ \A i \in 2 .. Len(out) : out[i][1] # "object"

\* dropped after two refreshes of different statuses
C7_Witness ==
  /\ proto_inst = "dropped"
  /\ refreshed = <<<<Block(1, 1)>>, <<Block(0, 1), Block(1, 1)>>>>
  /\ Len(out) = 7

\* the records of the stream, in the sink or still in the BufWriter
Stream == out \o wbuf

\* "]" occurs in s at most as its last record
ClosedAtMostAtEnd(s) == \A i \in 1 .. Len(s) - 1 : ~IsRaw(s[i], "]")

\* "]" occurs in s exactly once, as its last record
ClosedAtEnd(s) == s # <<>> /\ IsRaw(Last(s), "]") /\ ClosedAtMostAtEnd(s)

\* update_loop has been left: by return, by a panic, or by an abort
Exited == pc \in {"returned", "unwound", "aborted"}

(* C8, as claimed: on every exit of update_loop, also when a write failed,
   "]" has been written exactly once and is the last record of the stream
   (counting the records the BufWriter still holds as written). *)
C8_ClosedOnEveryExit == Exited => ClosedAtEnd(Stream)

(* C8, amended: on every exit of update_loop on which the sink accepted what
   was written (the queue ran empty, or a panic came out of a widget poll or
   out of update_loop's own indexing), the sink has received "]" exactly
   once, as its last record; when the sink rejects bytes the marker stays in
   the BufWriter or, if drop's write panics while unwinding, is not written
   at all; in no case is "]" written twice or followed by another record. *)
C8_ClosedWhenSinkAccepts ==
  /\ (Exited /\ sink = "ok") => ClosedAtEnd(out)
  /\ ClosedAtMostAtEnd(Stream)
  /\ pc = "aborted" => ~ClosedAtEnd(Stream)
  /\ ClosedAtEnd(Stream) => proto_inst = "dropped"

\* a widget's update() panicked after a refresh and unwinding closed the array
C8_Witness ==
  /\ pc = "unwound"
  /\ sink = "ok"
  /\ polls = 2
  /\ Len(refreshed) = 1
  /\ \A i \in Indices : ~Widget(i).done
  /\ IsRaw(Last(out), "]")

\* the polls of the event loop that returned an update
UpdatesReturned ==
  polls - Cardinality({i \in Indices : Widget(i).done /\ Widget(i).calls >= 2})

(* C9: every poll of the event loop that returns an update causes exactly
   one refresh, made after the snapshot was changed and the next event was
   scheduled: between iterations the refreshes number the updates returned,
   and when refresh runs the widget's event is in the queue. *)
C9_OneRefreshPerUpdate ==
  /\ pc \in {"loop", "popped", "return", "unwind", "returned", "unwound"} =>
       Len(refreshed) = UpdatesReturned
  /\ JustRefreshed =>
       /\ Last(refreshed) = result_buffer
       /\ \E e \in BagToSet(event_queue) : e[2] = next_event[2]

(* C10: when a widget that acquired slot k at priming returns a Block in the
   event loop, the snapshot refreshed for that poll is the whole current
   snapshot and has that Block at index k. *)
C10_RefreshShowsUpdate ==
  (/\ JustRefreshed
   /\ is_some(unwrap(update).data)
   /\ next_event[2] \in FirstData) =>
    /\ Last(refreshed) = result_buffer
    /\ Len(Last(refreshed)) = Cardinality(FirstData)
    /\ At(Last(refreshed), AcquiredSlot(next_event[2]))
         = Block(next_event[2], Widget(next_event[2]).blocks)

\* the second of three slot holders refreshed its second Block
C10_Witness ==
  /\ JustRefreshed
  /\ is_some(unwrap(update).data)
  /\ next_event[2] = 1
  /\ FirstData = {0, 1, 2}
  /\ At(Last(refreshed), 1) = Block(1, 2)

\* the events of widget i in the queue
Pending(i) == {e \in BagToSet(event_queue) : e[2] = i}

\* the widgets whose first poll returned None
FirstNone == {i \in Indices : Widget(i).first = "none"}

(* C11: a widget whose very first poll returned None is never in the event
   queue, is never the widget of the event being processed, is never polled
   again, and never occupies an index of the snapshot: its idx_map entry is
   outside the snapshot and no Block of the snapshot is its own. *)
C11_CompletedAtFirstPoll ==
  \A i \in FirstNone :
    /\ Pending(i) = {}
    /\ pc \in {"popped", "polled", "scheduled"} => next_event[2] # i
    /\ Widget(i).calls = 1
    /\ ~InBounds(result_buffer, At(idx_map, i))
    /\ \A k \in 1 .. Len(result_buffer) : result_buffer[k][1] # i

\* the middle widget completed at its first poll; a neighbour was refreshed
C11_Witness ==
  /\ JustRefreshed
  /\ FirstNone = {1}
  /\ FirstData = {0, 2}
  /\ is_some(unwrap(update).data)
  /\ Len(refreshed) = 2

(* C12: in every state of update_loop the event queue holds at most one
   event per widget, and none for a widget that has returned None. *)
C12_OneEventPerWidget ==
  /\ \A e \in BagToSet(event_queue) : CopiesIn(e, event_queue) = 1
  /\ \A i \in Indices :
       /\ Cardinality(Pending(i)) <= 1
       /\ Widget(i).done => Pending(i) = {}

\* every widget but a completed one has its event, after a refresh
C12_Witness ==
  /\ JustRefreshed
  /\ Len(widgets) = 3
  /\ \E i \in Indices :
       /\ Widget(i).done
       /\ \A j \in Indices \ {i} : Cardinality(Pending(j)) = 1

(* C13: each iteration of the event loop removes from the queue one event
   whose due time is less than or equal to the due time of every event that
   was pending with it. *)
C13_PopsEarliest ==
  [][(pc = "loop" /\ pc' = "popped") =>
       /\ BagIn(next_event', event_queue)
       /\ event_queue' = event_queue (-) SetToBag({next_event'})
       /\ \A f \in BagToSet(event_queue) : next_event'[1] <= f[1]]_vars

\* an event was popped while an event due later stays pending
C13_Witness ==
  /\ pc = "popped"
  /\ polls = 1
  /\ \E f \in BagToSet(event_queue) : f[1] > next_event[1]
  /\ \E f \in BagToSet(event_queue) : f[1] = next_event[1]

\* update_loop has started and every registered widget has returned None
AllDone == pc # "setup" /\ \A i \in Indices : Widget(i).done

\* update_loop has returned normally
HasReturned == pc \in {"return", "returned"}

(* C14: update_loop returns exactly when the event queue is empty: it has
   returned only when no widget has a pending event (every widget has
   returned None); at the head of the loop an empty queue makes it return
   and a non-empty queue does not; with no widget it returns without a poll
   or a record of a snapshot; and once every widget has returned None it
   does return. *)
C14_ReturnsWhenQueueEmpty ==
  /\ [](HasReturned => (\A i \in Indices : Pending(i) = {} /\ Widget(i).done))
  /\ []((HasReturned /\ Len(widgets) = 0) =>
          (polls = 0 /\ refreshed = <<>> /\ Arrays(Stream) = <<>>))
  /\ [][pc = "loop" =>
          (pc' = "return" <=> (\A i \in Indices : Pending(i) = {}))]_vars
  /\ (AllDone ~> pc = "returned")

\* two widgets, polled in the loop and refreshed, completed and the loop ended
C14_Witness ==
  /\ pc = "returned"
  /\ Len(widgets) = 2
  /\ polls = 2
  /\ \A i \in Indices : Widget(i).calls = 2

(* C15: a widget is polled by the event loop only when the clock has reached
   the due time of its event, which is the time its previous poll completed
   plus the refresh_interval that poll returned; the wait before the poll
   ends at the due time, and is zero when the due time has passed: the clock
   is never set back. *)
C15_PolledWhenDue ==
  /\ [](pc = "popped" => now >= next_event[1])
  /\ [](pc = "scheduled" =>
          Pending(next_event[2]) =
            {RefreshEvent(now + unwrap(update).refresh_interval, next_event[2])})
  /\ [][(pc = "loop" /\ pc' = "popped") =>
          now' = (IF next_event'[1] > now THEN next_event'[1] ELSE now)]_vars

\* the event was popped after its due time had passed
C15_Witness ==
  /\ pc = "popped"
  /\ polls = 1
  /\ now > next_event[1]

\* the decorator has been polled
Polled == is_some(decorated) /\ unwrap(decorated).polls >= 1

(* C16: WidgetDecorator::update returns None exactly when the inner update
   returns None; when the inner update has no Block it returns that update
   (no Block, same refresh_interval) without calling the function; otherwise
   it returns the inner update with the function applied once to its Block
   (one call, and the Block is the one a single application yields) and the
   refresh_interval unchanged. *)
C16_DecoratorUpdate ==
  Polled =>
    LET d == unwrap(decorated)
    IN /\ d.result = None <=> d.inner = None
       /\ d.inner = None => d.calls = 0
       /\ d.inner # None =>
            LET in == unwrap(d.inner)
                res == unwrap(d.result)
            IN /\ res.refresh_interval = in.refresh_interval
               /\ is_some(res.data) <=> is_some(in.data)
               /\ ~is_some(in.data) => d.calls = 0
               /\ is_some(in.data) =>
                    /\ d.calls = 1
                    /\ unwrap(res.data) = Call(d.proc, unwrap(in.data))
                    /\ d.proc = "append_full_text" =>
                         unwrap(res.data).full_text =
                           unwrap(in.data).full_text \o <<"a">>
                    /\ d.proc = "nothing" => res.data = in.data

\* the function appended to the text of the inner Block, once
C16_Witness ==
  /\ Polled
  /\ unwrap(decorated).proc = "append_full_text"
  /\ unwrap(decorated).polls = 2
  /\ unwrap(decorated).inner =
       Some(WidgetUpdate(1, Some(Block_full_text(Block_new, <<"a">>))))
  /\ unwrap(unwrap(decorated).result).data =
       Some(Block_full_text(Block_new, <<"a", "a">>))

\* the members of the JSON object last serialized from a value of this type
Serialized(type) == is_some(wire) /\ unwrap(wire).type = type

Members == unwrap(wire).json[2]

Has(key) == \E i \in 1 .. Len(Members) : Members[i][1] = key

Get(key) == Members[CHOOSE i \in 1 .. Len(Members) : Members[i][1] = key][2]

HexDigits == {HexDigit(d) : d \in 0 .. 15}

HexValue(c) == CHOOSE d \in 0 .. 15 : HexDigit(d) = c

(* C17: ColorRGB(r, g, b) serializes to '#' followed by exactly six
   hexadecimal digits, two per channel: digits 1-2 are r, 3-4 are g and 5-6
   are b. *)
C17_ColorIsSixHexDigits ==
  (Serialized("Block") /\ is_some(unwrap(block).color)) =>
    LET c == unwrap(unwrap(block).color)
        t == Get("color")
    IN /\ Len(t) = 7
       /\ t[1] = "#"
       /\ \A i \in 2 .. 7 : t[i] \in HexDigits
       /\ \A k \in 1 .. 3 : 16 * HexValue(t[2 * k]) + HexValue(t[2 * k + 1]) = c[k]

(* C18: in the wire form of a Header, version is always present and each of
   stop_signal, cont_signal and click_events is present exactly when it is
   set, with the value it was set to; a Header from Header::new with no call
   of click_events has no click_events member at all. *)
C18_HeaderMembers ==
  Serialized("Header") =>
    LET h == unwrap(header)
    IN /\ unwrap(wire).json[1] = "object"
       /\ Has("version") /\ Get("version") = h.version
       /\ Has("stop_signal") <=> is_some(h.stop_signal)
       /\ Has("cont_signal") <=> is_some(h.cont_signal)
       /\ Has("click_events") <=> is_some(h.click_events)
       /\ is_some(h.click_events) => Get("click_events") = unwrap(h.click_events)
       /\ Has("click_events") <=> last_call.header = <<"click_events">>
       /\ last_call.header = <<"new">> => Members = << <<"version", h.version>> >>

\* Header::new(1), serialized with no call of click_events
C18_Witness ==
  /\ Serialized("Header")
  /\ last_call.header = <<"new">>
  /\ unwrap(header).version = 1
  /\ ~Has("click_events")

(* C19: in the wire form of a Block, after any sequence of calls of its
   methods, full_text is always present (also when empty), short_text is
   present exactly when it is not empty, and color is present exactly when
   it is set: present after color, absent after clear_color. *)
C19_BlockMembers ==
  Serialized("Block") =>
    LET b == unwrap(block)
    IN /\ Has("full_text") /\ Get("full_text") = b.full_text
       /\ Has("short_text") <=> b.short_text # <<>>
       /\ b.short_text # <<>> => Get("short_text") = b.short_text
       /\ Has("color") <=> is_some(b.color)
       /\ last_call.block[1] = "color" => Has("color")
       /\ last_call.block[1] = "clear_color" => ~Has("color")

\* a Block with empty texts whose color was set and then cleared
C19_Witness ==
  /\ Serialized("Block")
  /\ last_call.block = <<"clear_color", Some(ColorRGB_yellow)>>
  /\ unwrap(block).full_text = <<>>
  /\ unwrap(block).short_text = <<>>
  /\ Has("full_text")
  /\ ~Has("short_text")

\* s without its last record
Front(s) == SubSeq(s, 1, Len(s) - 1)

\* s decodes, or will once the array announced by its last separator follows
DecodesSoFar(s) ==
  IF Decode(s).ok THEN Decode(s)
  ELSE IF s # <<>> /\ IsRaw(Last(s), ",") THEN Decode(Front(s))
  ELSE Decode(s)

(* C20: when the serialization of a status fails in refresh, the encoder goes
   on and the failed call leaves no trace in the stream: the stream still
   decodes as the header and one array whose elements are the empty array
   and the statuses of the calls that succeeded, in order, also after later
   calls of refresh and after drop.  (refreshed holds the statuses of the
   calls whose serialization succeeded.) *)
C20_FailedEmitLeavesNoTrace ==
  proto_inst # "none" =>
    /\ DecodesSoFar(out).ok
    /\ DecodesSoFar(out).elems = << <<>> >> \o refreshed
    /\ proto_inst = "dropped" => Decode(out).ok /\ Decode(out).closed

\* the thread is leaving update_loop by a panic
Unwinding == pc \in {"unwind", "unwound", "aborted"}

(* C21: a failure of the sink to accept a record, in write_all or in the
   flush of the buffered bytes, is fatal to the encoder: the operation
   aborts, so that a record the sink did not accept (one the BufWriter still
   holds) is the only such record and the thread is unwinding; no later
   record is written after it. *)
C21_SinkFailureIsFatal ==
  wbuf # <<>> => (Unwinding /\ Len(wbuf) = 1)

\* update() of widget i of src/src/widgets has been called and panicked
Panicked(i) == Widget(i).kind # "any" /\ Widget(i).last = "panic"

(* C22: for every state of its data source, update() of the CPU, network,
   volume and battery widgets returns an update or None and never panics. *)
C22_UpdateNeverPanics == \A i \in Indices : ~Panicked(i)

\* the source states in which the read of the data source fails
FailedRead == {"missing", "unreadable"}

\* the last update() of widget i of src/src/widgets found its read failing
ReadFailed(i) ==
  /\ Widget(i).kind # "any"
  /\ Widget(i).calls >= 2
  /\ Widget(i).src \in FailedRead
  /\ Widget(i).last # "panic"

(* C23: after a poll of the event loop in which the widget's read of its
   data source failed, the widget is still scheduled (it has an event in the
   queue, so it is polled again) and the Block it rendered before is still
   in the snapshot. *)
C23_FailedReadKeepsWidget ==
  \A i \in Indices :
    (pc = "loop" /\ ReadFailed(i)) =>
      /\ Pending(i) # {}
      /\ InBounds(result_buffer, At(idx_map, i))
      /\ At(result_buffer, At(idx_map, i)) = Block(i, Widget(i).blocks)

\* the full_text of the Block StockWidget::update returned last
Shown == unwrap(unwrap(stock.result).data).full_text

(* C24: StockWidget::update never waits for the refresh thread: under every
   interleaving its receive on the channel is ready at once, and it returns
   an update with a Block that shows "waiting" while no price for its symbol
   has been received and the last price received afterwards. *)
C24_UpdateNeverWaits ==
  /\ stock.pc = "refresh" => try_recv(channel).ready
  /\ stock.shown # "none" =>
       /\ is_some(stock.result)
       /\ is_some(unwrap(stock.result).data)
       /\ LET got == stock.received[stock.shown]
          IN Shown = <<"#eaeaea", stock.shown>> \o
                     (IF got = None THEN <<"#777777", "waiting">>
                      ELSE <<PriceColor(unwrap(got)),
                             HexDigit(unwrap(got).close)>>)

\* an update() returned a price while the thread runs and the next update()
\* finds the channel empty
C24_Witness ==
  /\ stock.pc = "refresh"
  /\ channel = <<>>
  /\ thread.state = "running"
  /\ stock.shown # "none"
  /\ stock.received[stock.shown] # None

\* a step of a poll of the event loop changes no more than the entry its
\* widget acquired at priming
OwnSlotOnly ==
  pc \in {"popped", "polled"} =>
    /\ Len(result_buffer') = Len(result_buffer)
    /\ idx_map' = idx_map
    /\ \A k \in 0 .. Len(result_buffer) - 1 :
         At(result_buffer', k) # At(result_buffer, k) =>
           /\ next_event[2] \in FirstData
           /\ k = AcquiredSlot(next_event[2])

(* C25: a poll of widget i in the event loop changes at most the snapshot
   entry that widget i acquired at priming: the entries of the other widgets,
   the length of the snapshot and idx_map are left unchanged. *)
C25_PollChangesOwnSlotOnly == [][OwnSlotOnly]_vars

(* C26: update_loop never computes or uses a snapshot index outside the
   snapshot: result_buffer.len() - 1 of the priming pass is never computed
   on an empty snapshot (the build profile never comes to matter), and the
   index the event loop is about to overwrite exists. *)
C26_IndicesInBounds ==
  /\ overflow_checks = "unknown"
  /\ (pc = "polled" /\ is_some(unwrap(update).data)) =>
       InBounds(result_buffer, Target(next_event[2]))

(* C27: the priming pass refreshes nothing and a poll that returns None
   refreshes nothing: no snapshot has been refreshed before the event loop
   has polled, and outside an iteration of the event loop the refreshes
   number the polls of the event loop that returned an update. *)
C27_RefreshesCountUpdates ==
  /\ polls = 0 => refreshed = <<>>
  /\ pc \in {"loop", "return", "returned", "unwind", "unwound"} =>
       Len(refreshed) = UpdatesReturned

\* widget i waits in the queue while the event loop may still poll
Waiting(i) ==
  /\ i \in Indices
  /\ pc = "loop"
  /\ polls < MaxPolls
  /\ Pending(i) # {}

\* the event loop polls widget i, or has made all the polls of the model
PolledAgain(i) ==
  \/ pc = "popped" /\ next_event[2] = i
  \/ polls = MaxPolls

(* C28: every widget with a pending event is eventually polled again, as
   long as the polls return: no widget is left waiting for ever. *)
C28_NoStarvation ==
  \A i \in 0 .. MaxWidgets - 1 : Waiting(i) ~> PolledAgain(i)

\* the widget was decorated with f and then with g, and has been polled
Nested == Polled /\ Len(unwrap(decorated).procs) = 2

(* C29: for a widget decorated with f and then with g, a poll whose inner
   update carries a Block returns that Block with f applied first and g
   second, each called once; None and an update without a Block pass
   through both layers unchanged, with no call. *)
C29_DecoratorsNest ==
  Nested =>
    LET d == unwrap(decorated)
        f == d.procs[1]
        g == d.procs[2]
    IN /\ d.inner = None => d.outer = [result |-> None, calls |-> <<>>]
       /\ d.inner # None =>
            LET in == unwrap(d.inner)
            IN IF is_some(in.data)
                 THEN /\ d.outer.calls = <<f, g>>
                      /\ d.outer.result =
                           Some(WidgetUpdate(in.refresh_interval,
                                  Some(Call(g, Call(f, unwrap(in.data))))))
                 ELSE d.outer = [result |-> d.inner, calls |-> <<>>]

\* color first and clear_color second leave a Block without color; the
\* other order would have colored it
C29_Witness ==
  /\ Nested
  /\ unwrap(decorated).procs = <<"color", "clear_color">>
  /\ unwrap(decorated).inner =
       Some(WidgetUpdate(1, Some(Block_full_text(Block_new, <<"a">>))))
  /\ unwrap(unwrap(unwrap(decorated).outer.result).data).color = None
  /\ Call("color", Call("clear_color", Block_new)).color # None

\* the event loop of update_loop is running
InEventLoop == pc \in {"loop", "popped", "polled", "scheduled"}

(* C30: whenever the event loop runs, idx_map has exactly one entry per
   registered widget and the snapshot holds exactly one Block per widget that
   acquired a slot at priming; also when update_loop is called again after
   it returned, with or without more widgets pushed in between. *)
C30_OneEntryPerWidget ==
  InEventLoop =>
    /\ Len(idx_map) = Len(widgets)
    /\ Len(result_buffer) = Cardinality(FirstData)

\* the symbols for which a widget was created from the client
WidgetSymbols == Range(client.symbols)

\* the symbols the refresh thread fetches
Fetched == Range(thread.symbols)

(* C31: a StockClient spawns at most one refresh thread, with its one
   channel, whatever widgets are created and polled; and once the thread
   runs, every symbol a widget was created for is among the symbols the
   thread fetches. *)
C31_OneThreadAllSymbols ==
  /\ thread.spawned <= 1
  /\ thread.spawned >= 1 => WidgetSymbols \subseteq Fetched

====
